---- MODULE Spec2Model ----
(***************************************************************************)
(* seqtools: lazy sequence views.                                          *)
(*   seqslice.py      SeqSlice   (Range View, range-of-range fusion)        *)
(*   combinatorics.py Product    (Product View), _ProductSlice (odometer)   *)
(*   reversed.py      Reversed   (generic Reversal View), SeqReversible     *)
(*                                                                         *)
(* Python values are modelled as follows.                                  *)
(*   None              the empty sequence <<>>; an integer n is <<n>>       *)
(*   slice(a, b, c)    [start |-> a, stop |-> b, step |-> c]                *)
(*   list / tuple      [cls |-> "list", oid, items]                         *)
(*   Product           [cls |-> "Product", oid, sequences]                  *)
(*   SeqSlice          [cls |-> "SeqSlice" or "_ProductSlice", oid,         *)
(*                      seq, slice]                                         *)
(*   Reversed          [cls |-> "Reversed", oid, seq]                       *)
(* oid is the identity of the object (Python's `is`).                      *)
(* The outcome of a call is [exc |-> "none", val |-> v] or                  *)
(* [exc |-> <exception name>].                                             *)
(***************************************************************************)
EXTENDS Integers, Sequences, FiniteSets, TLC

VARIABLES
    chain,      \* the objects built so far: chain[1] is the base sequence
    ops,        \* ops[k] is the operation that built chain[k+1] from chain[k]
    res,        \* outcome of the last index, length, search or zero-step call
    it,         \* state of the running _ProductSlice.__iter__ generator
    it2,        \* state of a second generator started on the same view
    nextId      \* next fresh object identity

vars == <<chain, ops, res, it, it2, nextId>>

(***************************************************************************)
(* Bounds of the model.                                                    *)
(***************************************************************************)
MaxLen == 3          \* longest base list
Margin == 1          \* start/stop/index values reach Margin past either end
MaxStep == 2         \* largest |step|
MaxFactors == 2      \* most factors of a Product
MaxFactorLen == 2    \* longest factor of a Product
MaxRepeat == 2       \* largest repeat= argument of Product
MaxProdLen == 4      \* longest Product

(***************************************************************************)
(* Python integer arithmetic and optional integers.                        *)
(***************************************************************************)
None == <<>>

Some(n) == <<n>>

IsNone(o) == o = <<>>

Val(o) == o[1]

Abs(n) == IF n < 0 THEN -n ELSE n

Min(a, b) == IF a < b THEN a ELSE b

Max(a, b) == IF a < b THEN b ELSE a

\* Python's a // b (rounds towards minus infinity) for b # 0
PyDiv(a, b) == IF b > 0 THEN a \div b ELSE (-a) \div (-b)

\* Python's a % b (takes the sign of b) for b # 0
PyMod(a, b) == a - b * PyDiv(a, b)

Ok(v) == [exc |-> "none", val |-> v]

Raise(e) == [exc |-> e]

Slice(a, b, c) == [start |-> a, stop |-> b, step |-> c]

\* the step of a descriptor with None read as 1
StepOf(sl) == IF IsNone(sl.step) THEN 1 ELSE Val(sl.step)

(***************************************************************************)
(* Objects.                                                                *)
(***************************************************************************)
MkList(id, xs) == [cls |-> "list", oid |-> id, items |-> xs]

MkSeqSlice(c, id, seq, sl) == [cls |-> c, oid |-> id, seq |-> seq, slice |-> sl]

MkProduct(id, seqs) == [cls |-> "Product", oid |-> id, sequences |-> seqs]

\* a built-in sequence of class c: "tuple", "range", or "str", which offers
\* rindex
MkSeq(c, id, xs) == [cls |-> c, oid |-> id, items |-> xs]

MkReversed(id, seq) == [cls |-> "Reversed", oid |-> id, seq |-> seq]

\* isinstance(o, SeqReversible)
IsSeqReversible(o) == o.cls \in {"SeqSlice", "_ProductSlice", "Product", "Reversed"}

IsSlice(o) == o.cls \in {"SeqSlice", "_ProductSlice"}

(***************************************************************************)
(* Built-in sequences (list, tuple, str): the external collaborators.      *)
(***************************************************************************)
\* xs[j] for -len <= j < len
PyItem(xs, j) == IF j >= 0 THEN xs[j + 1] ELSE xs[Len(xs) + j + 1]

List_getitem(xs, j) ==
    IF -Len(xs) <= j /\ j < Len(xs) THEN Ok(PyItem(xs, j)) ELSE Raise("IndexError")

\* mutant of Indices: start and stop are not clipped to the sequence
Indices_Unclipped(sl, L) ==
    LET step  == StepOf(sl)
        lower == IF step < 0 THEN -1 ELSE 0
        upper == IF step < 0 THEN L - 1 ELSE L
        shift(o, dflt) ==
            IF IsNone(o) THEN dflt
            ELSE IF Val(o) < 0 THEN Val(o) + L
            ELSE Val(o)
    IN  << shift(sl.start, IF step < 0 THEN upper ELSE lower),
           shift(sl.stop,  IF step < 0 THEN lower ELSE upper),
           step >>

\* slice.indices(L) for a non-zero step: <<start, stop, step>>
Indices(sl, L) ==
    LET step  == StepOf(sl)
        lower == IF step < 0 THEN -1 ELSE 0
        upper == IF step < 0 THEN L - 1 ELSE L
        clamp(o, dflt) ==
            IF IsNone(o) THEN dflt
            ELSE IF Val(o) < 0 THEN Max(Val(o) + L, lower)
            ELSE Min(Val(o), upper)
    IN  << clamp(sl.start, IF step < 0 THEN upper ELSE lower),
           clamp(sl.stop,  IF step < 0 THEN lower ELSE upper),
           step >>

RECURSIVE RefWalk(_, _, _)
\* the positions visited from p up to, not including, stop by steps of step
RefWalk(p, stop, step) ==
    IF (step > 0 /\ p < stop) \/ (step < 0 /\ p > stop)
    THEN <<p>> \o RefWalk(p + step, stop, step)
    ELSE <<>>

\* the base positions selected by descriptor sl in a sequence of length L
RefPositions(sl, L) ==
    LET b == Indices(sl, L) IN RefWalk(b[1], b[2], b[3])

\* the conventional slice xs[sl] of a list
RefSlice(xs, sl) ==
    LET ps == RefPositions(sl, Len(xs)) IN [k \in 1..Len(ps) |-> xs[ps[k] + 1]]

\* xs[sl] on a built-in sequence: a new list, or ValueError for a zero step
List_getslice(xs, sl) ==
    IF StepOf(sl) = 0 THEN Raise("ValueError") ELSE Ok(RefSlice(xs, sl))

(***************************************************************************)
(* combinatorics.py: Product                                               *)
(***************************************************************************)
RECURSIVE MulLens_ZeroInit(_, _)
\* mutant of MulLens: the reduction starts from 0 instead of 1
MulLens_ZeroInit(seqs, k) ==
    IF k > Len(seqs) THEN 0 ELSE Len(seqs[k]) * MulLens_ZeroInit(seqs, k + 1)

RECURSIVE MulLens(_, _)
\* functools.reduce(operator.mul, (len(s) for s in seqs[k..]), 1)
MulLens(seqs, k) ==
    IF k > Len(seqs) THEN 1 ELSE Len(seqs[k]) * MulLens(seqs, k + 1)

RECURSIVE TupleTimes(_, _)
\* Python's tuple * n
TupleTimes(xs, n) == IF n <= 0 THEN <<>> ELSE xs \o TupleTimes(xs, n - 1)

\* Product(*sequences, repeat=repeat): the factors stored by __init__
Product_init(sequences, repeat) == TupleTimes(sequences, repeat)

Product_len(self) == MulLens(self.sequences, 1)

RECURSIVE MultiIndexFrom_NoCarry(_, _, _, _)
\* mutant of MultiIndexFrom: the quotient is not carried to the next factor,
\* so that every digit is the index itself modulo the factor's length
MultiIndexFrom_NoCarry(seqs, k, i, indices) ==
    IF k = 0 THEN Ok(indices)
    ELSE IF Len(seqs[k]) = 0 THEN Raise("ZeroDivisionError")
    ELSE MultiIndexFrom_NoCarry(seqs, k - 1, i,
                                <<PyMod(i, Len(seqs[k]))>> \o indices)

RECURSIVE MultiIndexFrom(_, _, _, _)
\* the loop of _multi_index at factor k (from the last factor down to the
\* first), with quotient i and the indices gathered so far
MultiIndexFrom(seqs, k, i, indices) ==
    IF k = 0 THEN Ok(indices)
    ELSE IF Len(seqs[k]) = 0 THEN Raise("ZeroDivisionError")
    ELSE MultiIndexFrom(seqs, k - 1, PyDiv(i, Len(seqs[k])),
                        <<PyMod(i, Len(seqs[k]))>> \o indices)

Product_multi_index(self, i) ==
    MultiIndexFrom(self.sequences, Len(self.sequences), i, <<>>)

Product_elem_at(self, indices) ==
    [k \in 1..Len(self.sequences) |-> PyItem(self.sequences[k], indices[k])]

\* mutant of Product_getitem_index: no bounds check, so that the index is
\* reduced modulo the length
Product_getitem_index_NoCheck(self, index) ==
    LET mi == Product_multi_index(self, index)
    IN  IF mi.exc # "none" THEN mi ELSE Ok(Product_elem_at(self, mi.val))

Product_getitem_index(self, index) ==
    LET L == Product_len(self)
    IN  IF ~(-L <= index /\ index < L) THEN Raise("IndexError")
        ELSE LET mi == Product_multi_index(self, index)
             IN  IF mi.exc # "none" THEN mi
                 ELSE Ok(Product_elem_at(self, mi.val))

\* elem in factor, for a factor that is a tuple
Tuple_contains(xs, e) == \E j \in 1..Len(xs) : xs[j] = e

\* mutant of Tuple_count: 1 for an element that occurs, however often
Tuple_count_Presence(xs, e) == IF \E j \in 1..Len(xs) : xs[j] = e THEN 1 ELSE 0

\* factor.count(elem)
Tuple_count(xs, e) == Cardinality({j \in 1..Len(xs) : xs[j] = e})

\* factor.index(elem): the first position of elem, or ValueError
Tuple_index(xs, e) ==
    IF \E j \in 1..Len(xs) : xs[j] = e
    THEN Ok((CHOOSE j \in 1..Len(xs) :
                 xs[j] = e /\ \A k \in 1..(j - 1) : xs[k] # e) - 1)
    ELSE Raise("ValueError")

\* item in self, for a tuple item
Product_contains(self, item) ==
    IF Len(item) # Len(self.sequences) THEN Ok(FALSE)
    ELSE Ok(\A k \in 1..Len(item) : Tuple_contains(self.sequences[k], item[k]))

RECURSIVE CountFrom(_, _, _, _)
\* the loop of count over zip(item, sequences), at pair k with ways so far
CountFrom(item, seqs, k, ways) ==
    IF k > Min(Len(item), Len(seqs)) THEN ways
    ELSE LET w == ways * Tuple_count(seqs[k], item[k])
         IN  IF w = 0 THEN 0 ELSE CountFrom(item, seqs, k + 1, w)

\* self.count(item), for a tuple item
Product_count(self, item) ==
    IF Len(item) # Len(self.sequences) THEN Ok(0)
    ELSE Ok(CountFrom(item, self.sequences, 1, 1))

RECURSIVE IndexFrom_NoRadix(_, _, _, _)
\* mutant of IndexFrom: the position so far is not scaled by the factor's
\* length
IndexFrom_NoRadix(item, seqs, k, i) ==
    IF k > Min(Len(item), Len(seqs)) THEN Ok(i)
    ELSE LET r == Tuple_index(seqs[k], item[k])
         IN  IF r.exc # "none" THEN r
             ELSE IndexFrom_NoRadix(item, seqs, k + 1, i + r.val)

RECURSIVE IndexFrom(_, _, _, _)
\* the loop of index over zip(item, sequences), at pair k with position i
IndexFrom(item, seqs, k, i) ==
    IF k > Min(Len(item), Len(seqs)) THEN Ok(i)
    ELSE LET r == Tuple_index(seqs[k], item[k])
         IN  IF r.exc # "none" THEN r
             ELSE IndexFrom(item, seqs, k + 1, i * Len(seqs[k]) + r.val)

\* self.index(item), for a tuple item
Product_index(self, item) ==
    IF self.sequences = <<>>
    THEN (IF item = <<>> THEN Ok(0) ELSE Raise("ValueError"))
    ELSE IndexFrom(item, self.sequences, 1, 0)

(***************************************************************************)
(* seqslice.py: SeqSlice                                                   *)
(***************************************************************************)
SeqSlice_baselen(self) ==
    IF self.seq.cls = "Product" THEN Product_len(self.seq)
    ELSE Len(self.seq.items)

SeqSlice_bounds(self) == Indices(self.slice, SeqSlice_baselen(self))

\* mutant of SeqSlice_len: the "- 1" of the rounding is lost
SeqSlice_len_OffByOne(self) ==
    LET b     == SeqSlice_bounds(self)
        start == b[1]
        stop  == b[2]
        step  == b[3]
    IN  IF (step > 0 /\ start < stop) \/ (step < 0 /\ start > stop)
        THEN Abs(stop - start) \div Abs(step) + 1
        ELSE 0

\* len: the number of positions from start to stop by steps of step
LenOfBounds(start, stop, step) ==
    IF (step > 0 /\ start < stop) \/ (step < 0 /\ start > stop)
    THEN (Abs(stop - start) - 1) \div Abs(step) + 1
    ELSE 0

\* the length of the range whose bounds are b
LenOf(b) == LenOfBounds(b[1], b[2], b[3])

SeqSlice_len(self) == LenOf(SeqSlice_bounds(self))

\* mutant of SeqSlice_compose_index: negative indices are offset from stop
\* itself, not from the anchor congruent to start
SeqSlice_compose_index_NoAnchor(self, i) ==
    LET b     == SeqSlice_bounds(self)
        start == b[1]
        stop  == b[2]
        step  == b[3]
        sl    == self.slice
    IN  IF i >= 0
        THEN LET j == start + i * step
             IN  IF \/ (~IsNone(sl.start) /\ Val(sl.start) < 0)
                    \/ (IsNone(sl.start) /\ step < 0)
                 THEN j - SeqSlice_baselen(self)
                 ELSE j
        ELSE LET j == stop + i * step
             IN  IF \/ (~IsNone(sl.stop) /\ Val(sl.stop) < 0)
                    \/ (IsNone(sl.stop) /\ step > 0)
                 THEN j - SeqSlice_baselen(self)
                 ELSE j

\* mutant of ComposeShift: the index is always given from the back
ComposeShift_Always(j, fromBack, baselen) == j - baselen

\* _compose_index: the base index, less the base length when the slice
\* counts from the back
ComposeShift(j, fromBack, baselen) == IF fromBack THEN j - baselen ELSE j

\* _compose_index for the slice sl of bounds b over a base of length baselen
ComposeIndexAt(sl, b, baselen, i) ==
    IF i >= 0
    THEN ComposeShift(b[1] + i * b[3],
                      \/ (~IsNone(sl.start) /\ Val(sl.start) < 0)
                      \/ (IsNone(sl.start) /\ b[3] < 0),
                      baselen)
    ELSE ComposeShift(PyMod(b[1] - b[2], b[3]) + b[2] + i * b[3],
                      \/ (~IsNone(sl.stop) /\ Val(sl.stop) < 0)
                      \/ (IsNone(sl.stop) /\ b[3] > 0),
                      baselen)

SeqSlice_compose_index(self, i) ==
    ComposeIndexAt(self.slice, SeqSlice_bounds(self), SeqSlice_baselen(self), i)

\* self._seq[j]
SeqSlice_base_getitem(self, j) ==
    IF self.seq.cls = "Product" THEN Product_getitem_index(self.seq, j)
    ELSE List_getitem(self.seq.items, j)

\* __getitem__ with an integer, L being self.len()
GetItemChecked(self, index, L) ==
    IF ~(-L <= index /\ index < L) THEN Raise("IndexError")
    ELSE SeqSlice_base_getitem(self, SeqSlice_compose_index(self, index))

SeqSlice_getitem_index(self, index) == GetItemChecked(self, index, SeqSlice_len(self))

\* _compose_slice: the step of the fused slice
ComposeStep(old, s) ==
    IF ~IsNone(s.step)
    THEN (IF ~IsNone(old.step) THEN Some(Val(old.step) * Val(s.step))
          ELSE s.step)
    ELSE old.step

\* _compose_slice: the start of the fused slice, L being self.len();
\* Ok(start) or EmptySubsliceException
ComposeStart(self, s, L) ==
    LET reversed_ == ~IsNone(s.step) /\ Val(s.step) < 0
        inBounds  == -L <= Val(s.start) /\ Val(s.start) < L
        tooLate   == \/ (Val(s.start) >= L /\ (IsNone(s.step) \/ Val(s.step) > 0))
                     \/ (Val(s.start) < -L /\ (~IsNone(s.step) /\ Val(s.step) < 0))
    IN  IF ~IsNone(s.start)
        THEN IF inBounds THEN Ok(Some(SeqSlice_compose_index(self, Val(s.start))))
             ELSE IF tooLate THEN Raise("EmptySubsliceException")
             ELSE IF reversed_ THEN Ok(Some(SeqSlice_compose_index(self, -1)))
             ELSE Ok(self.slice.start)
        ELSE IF reversed_ THEN Ok(Some(SeqSlice_compose_index(self, -1)))
             ELSE Ok(self.slice.start)

\* _compose_slice: the stop of the fused slice, L being self.len() and step
\* the fused step; Ok(stop) or EmptySubsliceException
ComposeStop(self, s, L, step) ==
    LET reversed_ == ~IsNone(s.step) /\ Val(s.step) < 0
        inBounds  == -L <= Val(s.stop) /\ Val(s.stop) < L
        tooEarly  == \/ (Val(s.stop) < -L /\ (IsNone(s.step) \/ Val(s.step) > 0))
                     \/ (Val(s.stop) >= L /\ (~IsNone(s.step) /\ Val(s.step) < 0))
        old       == self.slice
        clipped   == IF IsNone(old.start) \/ old.start = Some(0)
                     THEN None
                     ELSE Some(Val(old.start) + (IF Val(step) > 0 THEN 1 ELSE -1))
    IN  IF ~IsNone(s.stop)
        THEN IF inBounds THEN Ok(Some(SeqSlice_compose_index(self, Val(s.stop))))
             ELSE IF tooEarly THEN Raise("EmptySubsliceException")
             ELSE IF reversed_ THEN Ok(clipped)
             ELSE Ok(old.stop)
        ELSE IF reversed_ THEN Ok(clipped)
             ELSE Ok(old.stop)

\* _compose_slice: the fused slice, or the exception start or stop raised
ComposeResult(start, stop, step) ==
    IF start.exc # "none" THEN start
    ELSE IF stop.exc # "none" THEN stop
    ELSE Ok(Slice(start.val, stop.val, step))

\* _compose_slice, L being self.len() and step the fused step
ComposeWith(self, s, L, step) ==
    ComposeResult(ComposeStart(self, s, L), ComposeStop(self, s, L, step), step)

\* _compose_slice(s): Ok(slice) or EmptySubsliceException
SeqSlice_compose_slice(self, s) ==
    ComposeWith(self, s, SeqSlice_len(self), ComposeStep(self.slice, s))

\* __getitem__ with a slice: the object returned for the outcome subslice of
\* _compose_slice
SubView(self, subslice, id) ==
    IF subslice.exc = "EmptySubsliceException"
    THEN (IF self.seq.cls = "Product" THEN MkProduct(id, <<>>)
          ELSE MkList(id, <<>>))
    ELSE MkSeqSlice(self.cls, id, self.seq, subslice.val)

\* __getitem__ with a slice; id is the identity of the object it allocates
SeqSlice_getitem_slice(self, index, id) ==
    SubView(self, SeqSlice_compose_slice(self, index), id)

\* Product.__getitem__ with a slice
Product_getitem_slice(self, index, id) == MkSeqSlice("_ProductSlice", id, self, index)

(***************************************************************************)
(* reversed.py: Reversed                                                   *)
(***************************************************************************)
\* mutant of Reversed_revindex: the index is negated but not shifted
Reversed_revindex_NoShift(i) == -i

Reversed_revindex(i) == -1 - i

SeqSlice_seqtools_reversed(self, id) ==
    SeqSlice_getitem_slice(self, Slice(None, None, Some(-1)), id)

Product_seqtools_reversed(self, id) ==
    Product_getitem_slice(self, Slice(None, None, Some(-1)), id)

\* mutant of Reversed_seqtools_reversed: a copy of the base is returned
Reversed_seqtools_reversed_Copy(self) == MkList(self.oid, self.seq.items)

Reversed_seqtools_reversed(self) == self.seq

\* mutant of Reversed_new: a wrapper is allocated whatever seq is
Reversed_new_AlwaysWrap(seq, id) == MkReversed(id, seq)

\* Reversed(seq): __new__ followed, for a fresh wrapper, by __init__
Reversed_new(seq, id) ==
    IF seq.cls = "range"
    THEN MkSeq("range", id, List_getslice(seq.items, Slice(None, None, Some(-1))).val)
    ELSE IF IsSlice(seq) THEN SeqSlice_seqtools_reversed(seq, id)
    ELSE IF seq.cls = "Product" THEN Product_seqtools_reversed(seq, id)
    ELSE IF seq.cls = "Reversed" THEN Reversed_seqtools_reversed(seq)
    ELSE MkReversed(id, seq)

\* mutant of Reversed_revslice: a missing step stays missing
Reversed_revslice_KeepStep(s) ==
    Slice(IF IsNone(s.start) THEN None ELSE Some(Reversed_revindex(Val(s.start))),
          IF IsNone(s.stop) THEN None ELSE Some(Reversed_revindex(Val(s.stop))),
          IF IsNone(s.step) THEN None ELSE Some(-Val(s.step)))

Reversed_revslice(s) ==
    Slice(IF IsNone(s.start) THEN None ELSE Some(Reversed_revindex(Val(s.start))),
          IF IsNone(s.stop) THEN None ELSE Some(Reversed_revindex(Val(s.stop))),
          IF IsNone(s.step) THEN Some(-1) ELSE Some(-Val(s.step)))

\* __getitem__ with a slice: the outcome of self._seq[self._revslice(index)]
Reversed_getitem_slice(self, index) ==
    List_getslice(self.seq.items, Reversed_revslice(index))

Reversed_len(self) == Len(self.seq.items)

Reversed_getitem_index(self, index) ==
    List_getitem(self.seq.items, Reversed_revindex(index))

\* hasattr(o, "rindex")
HasRindex(o) == o.cls = "str"

\* str.rindex(e, start, end) for a one-character e: the highest position of
\* e within xs[start:end], or ValueError
Str_rindex(xs, e, start, end) ==
    LET L      == Len(xs)
        lo     == IF start < 0 THEN Max(start + L, 0) ELSE Min(start, L)
        hi     == IF end < 0 THEN Max(end + L, 0) ELSE Min(end, L)
        cands  == {j \in lo..(hi - 1) : xs[j + 1] = e}
    IN  IF cands = {} THEN Raise("ValueError")
        ELSE Ok(CHOOSE j \in cands : \A k \in cands : k <= j)

RECURSIVE Sequence_scan(_, _, _, _)
\* the loop of collections.abc.Sequence.index at position i
Sequence_scan(self, value, i, stop) ==
    IF i >= stop THEN Raise("ValueError")
    ELSE LET v == Reversed_getitem_index(self, i)
         IN  IF v.exc # "none" THEN Raise("ValueError")
             ELSE IF v.val = value THEN Ok(i)
             ELSE Sequence_scan(self, value, i + 1, stop)

\* collections.abc.Sequence.index(self, value, start, stop) on a Reversed
Sequence_index(self, value, start, stop) ==
    LET L == Reversed_len(self)
    IN  Sequence_scan(self, value,
                      IF start < 0 THEN Max(L + start, 0) ELSE start,
                      IF stop < 0 THEN stop + L ELSE stop)

\* self.index(item, start, stop), stop being None when it is not given:
\* Ok(Some(i)), Ok(None) when the call returns nothing, or ValueError
Reversed_index(self, item, start, stop) ==
    LET L     == Reversed_len(self)
        stop1 == IF IsNone(stop) THEN L ELSE Val(stop)
    IN  IF HasRindex(self.seq)
        THEN LET rstart == Reversed_revindex(stop1) + 1
                 rstop  == IF start = 0 THEN L ELSE Reversed_revindex(start) + 1
                 r      == Str_rindex(self.seq.items, item, rstart, rstop)
             IN  IF r.exc # "none" THEN r
                 ELSE Ok(Some(Reversed_revindex(r.val) + L))
        ELSE LET r == Sequence_index(self, item, start, stop1)
             IN  IF r.exc # "none" THEN r ELSE Ok(None)

(***************************************************************************)
(* Dispatch on the class of the receiver: len(o), o[i].                    *)
(***************************************************************************)
PyLen(o) ==
    CASE IsSlice(o)           -> SeqSlice_len(o)
      [] o.cls = "Product"    -> Product_len(o)
      [] o.cls = "Reversed"   -> Reversed_len(o)
      [] OTHER                -> Len(o.items)

PyGetItem(o, i) ==
    CASE IsSlice(o)           -> SeqSlice_getitem_index(o, i)
      [] o.cls = "Product"    -> Product_getitem_index(o, i)
      [] o.cls = "Reversed"   -> Reversed_getitem_index(o, i)
      [] OTHER                -> List_getitem(o.items, i)

(***************************************************************************)
(* combinatorics.py: _ProductSlice.__iter__, a generator.  A generator     *)
(* state is [st, exc, step, stop, indices, item, out]: st is "idle" before *)
(* the first next(), "yield" while suspended at a yield, "done" after it   *)
(* returned and "raised" after it raised exc; out lists the yielded items. *)
(***************************************************************************)
IdleIter ==
    [st |-> "idle", exc |-> "none", step |-> 1, stop |-> None,
     indices |-> <<>>, item |-> <<>>, out |-> <<>>]

RECURSIVE LexLess(_, _)
\* Python's a < b on two lists of integers
LexLess(a, b) ==
    IF a = <<>> THEN b # <<>>
    ELSE IF b = <<>> THEN FALSE
    ELSE IF Head(a) # Head(b) THEN Head(a) < Head(b)
    ELSE LexLess(Tail(a), Tail(b))

RECURSIVE Carry(_, _, _, _)
\* the carry loop: pos is the 1-based position of the factor looked at
Carry(seqs, pos, indices, item) ==
    IF pos > 1 /\ ~(0 <= indices[pos] /\ indices[pos] < Len(seqs[pos]))
    THEN LET n   == Len(seqs[pos])
             q   == PyDiv(indices[pos], n)
             r   == PyMod(indices[pos], n)
             ind == [indices EXCEPT ![pos] = r, ![pos - 1] = @ + q]
         IN  Carry(seqs, pos - 1, ind, [item EXCEPT ![pos] = PyItem(seqs[pos], r)])
    ELSE [pos |-> pos, indices |-> indices, item |-> item]

\* mutant of ProductSlice_iter_first: a start past the back is taken as it
\* is with a negative step instead of being clipped to the last element
ProductSlice_iter_first_NoClip(self) ==
    LET sl     == self.slice
        seqs   == self.seq.sequences
        step   == StepOf(sl)
        L      == SeqSlice_baselen(self)
        late   == /\ ~IsNone(sl.start)
                  /\ \/ (Val(sl.start) >= L /\ step > 0)
                     \/ (Val(sl.start) < -L /\ step < 0)
        start  == IF IsNone(sl.start) THEN (IF step > 0 THEN 0 ELSE -1)
                  ELSE IF Val(sl.start) < -L /\ step > 0 THEN -L
                  ELSE Val(sl.start)
        stopmi == Product_multi_index(self.seq, Val(sl.stop))
        mi     == Product_multi_index(self.seq, start)
    IN  IF late THEN [IdleIter EXCEPT !.st = "done", !.step = step]
        ELSE IF seqs = <<>>
        THEN [IdleIter EXCEPT !.st = "yield", !.step = step, !.out = << <<>> >>]
        ELSE IF ~IsNone(sl.stop) /\ stopmi.exc # "none"
        THEN [IdleIter EXCEPT !.st = "raised", !.exc = stopmi.exc, !.step = step]
        ELSE IF mi.exc # "none"
        THEN [IdleIter EXCEPT !.st = "raised", !.exc = mi.exc, !.step = step]
        ELSE LET item == Product_elem_at(self.seq, mi.val)
             IN  [st |-> "yield", exc |-> "none", step |-> step,
                  stop |-> IF IsNone(sl.stop) THEN None ELSE Some(stopmi.val),
                  indices |-> mi.val, item |-> item, out |-> <<item>>]

\* from the call of next() on a fresh generator to its first yield
ProductSlice_iter_first(self) ==
    LET sl     == self.slice
        seqs   == self.seq.sequences
        step   == StepOf(sl)
        L      == SeqSlice_baselen(self)
        late   == /\ ~IsNone(sl.start)
                  /\ \/ (Val(sl.start) >= L /\ step > 0)
                     \/ (Val(sl.start) < -L /\ step < 0)
        start  == IF IsNone(sl.start) THEN (IF step > 0 THEN 0 ELSE -1)
                  ELSE IF Val(sl.start) >= L /\ step < 0 THEN L - 1
                  ELSE IF Val(sl.start) < -L /\ step > 0 THEN -L
                  ELSE Val(sl.start)
        stopmi == Product_multi_index(self.seq, Val(sl.stop))
        mi     == Product_multi_index(self.seq, start)
    IN  IF late THEN [IdleIter EXCEPT !.st = "done", !.step = step]
        ELSE IF seqs = <<>>
        THEN [IdleIter EXCEPT !.st = "yield", !.step = step, !.out = << <<>> >>]
        ELSE IF ~IsNone(sl.stop) /\ stopmi.exc # "none"
        THEN [IdleIter EXCEPT !.st = "raised", !.exc = stopmi.exc, !.step = step]
        ELSE IF mi.exc # "none"
        THEN [IdleIter EXCEPT !.st = "raised", !.exc = mi.exc, !.step = step]
        ELSE LET item == Product_elem_at(self.seq, mi.val)
             IN  [st |-> "yield", exc |-> "none", step |-> step,
                  stop |-> IF IsNone(sl.stop) THEN None ELSE Some(stopmi.val),
                  indices |-> mi.val, item |-> item, out |-> <<item>>]

\* the odometer turns over instead of stopping when the index of the first
\* factor leaves the factor
ProductSlice_iter_next_TurnOver(self, g) ==
    LET seqs == self.seq.sequences
        N    == Len(seqs)
        goon == \/ IsNone(g.stop)
                \/ (g.step > 0 /\ LexLess(g.indices, Val(g.stop)))
                \/ (g.step < 0 /\ LexLess(Val(g.stop), g.indices))
    IN  IF seqs = <<>> \/ ~goon \/ Len(seqs[1]) = 0 THEN [g EXCEPT !.st = "done"]
        ELSE LET c    == Carry(seqs, N, [g.indices EXCEPT ![N] = @ + g.step], g.item)
                 ind  == [c.indices EXCEPT ![1] = PyMod(@, Len(seqs[1]))]
                 item == [c.item EXCEPT ![c.pos] = PyItem(seqs[c.pos], ind[c.pos])]
             IN  [g EXCEPT !.indices = ind, !.item = item, !.out = Append(@, item)]

\* mutant of ProductSlice_iter_next: the slot of the factor where the carry
\* stopped is not refreshed
ProductSlice_iter_next_StaleSlot(self, g) ==
    LET seqs == self.seq.sequences
        N    == Len(seqs)
        goon == \/ IsNone(g.stop)
                \/ (g.step > 0 /\ LexLess(g.indices, Val(g.stop)))
                \/ (g.step < 0 /\ LexLess(Val(g.stop), g.indices))
    IN  IF seqs = <<>> \/ ~goon THEN [g EXCEPT !.st = "done"]
        ELSE LET c == Carry(seqs, N, [g.indices EXCEPT ![N] = @ + g.step], g.item)
             IN  IF c.pos = 1 /\ ~(0 <= c.indices[1] /\ c.indices[1] < Len(seqs[1]))
                 THEN [g EXCEPT !.st = "done", !.indices = c.indices, !.item = c.item]
                 ELSE [g EXCEPT !.indices = c.indices, !.item = c.item,
                                !.out = Append(@, c.item)]

\* from a yield to the next yield or to the end of the generator
ProductSlice_iter_next(self, g) ==
    LET seqs == self.seq.sequences
        N    == Len(seqs)
        goon == \/ IsNone(g.stop)
                \/ (g.step > 0 /\ LexLess(g.indices, Val(g.stop)))
                \/ (g.step < 0 /\ LexLess(Val(g.stop), g.indices))
    IN  IF seqs = <<>> \/ ~goon THEN [g EXCEPT !.st = "done"]
        ELSE LET c == Carry(seqs, N, [g.indices EXCEPT ![N] = @ + g.step], g.item)
             IN  IF c.pos = 1 /\ ~(0 <= c.indices[1] /\ c.indices[1] < Len(seqs[1]))
                 THEN [g EXCEPT !.st = "done", !.indices = c.indices, !.item = c.item]
                 ELSE LET item == [c.item EXCEPT
                                     ![c.pos] = PyItem(seqs[c.pos], c.indices[c.pos])]
                      IN  [g EXCEPT !.indices = c.indices, !.item = item,
                                    !.out = Append(@, item)]

(***************************************************************************)
(* The inputs the operations are exercised with.                           *)
(***************************************************************************)
\* start, stop and index values for a sequence of length n
OptInts(n) == {None} \cup {Some(k) : k \in -(n + Margin)..(n + Margin)}

Steps == {None} \cup {Some(k) : k \in (-MaxStep..MaxStep) \ {0}}

\* the range descriptors with a non-zero step tried on a sequence of length n
Descs(n) == {Slice(a, b, c) : a \in OptInts(n), b \in OptInts(n), c \in Steps}

\* the descriptors tried on a Range View over a list (the inner descriptor
\* of a fusion): every start and stop, with the default step, the reversal
\* and a stride
SubDescs(n) ==
    {Slice(a, b, c) : a \in OptInts(n), b \in OptInts(n),
                      c \in {None, Some(-1), Some(2)}}

\* the descriptors tried on a sub-range of a Product (a second fusion
\* level): from the natural edge, from the last element and from beyond the
\* end, forwards and backwards
FuseDescs(n) ==
    {Slice(a, None, c) : a \in {None, Some(-1), Some(n + Margin)},
                         c \in {None, Some(-1)}}

\* the indexes just outside a sequence of length n
OutIndexes(n) == (-(n + Margin)..(-n - 1)) \cup (n..(n + Margin))

Indexes(n) == -(n + Margin)..(n + Margin)

\* the list [10, 20, ..., 10 * n]
ListOf(n) == [k \in 1..n |-> 10 * k]

\* factor k of a product, of length n: [10k + 1, ..., 10k + n]
FactorOf(k, n) == [j \in 1..n |-> 10 * k + j]

\* the factor lists of every product of at most MaxFactors factors, each of
\* at most MaxFactorLen elements
FactorLists ==
    UNION {{[k \in 1..N |-> FactorOf(k, lens[k])] :
              lens \in [1..N -> 0..MaxFactorLen]} : N \in 0..MaxFactors}

\* the elements of the sequences searched: they occur more than once
SearchVals == {1, 2}

\* an element that occurs in no sequence
Absent == 0

\* the sequences of at most n elements of SearchVals
SearchSeqs(n) == UNION {[1..k -> SearchVals] : k \in 0..n}

\* the factor lists of the products searched
SearchFactorLists ==
    UNION {[1..N -> SearchSeqs(MaxFactorLen)] : N \in 0..MaxFactors}

\* the elements of sequence xs
ElemsOf(xs) == {xs[j] : j \in 1..Len(xs)}

\* the tuples looked for in a product of factors seqs: of every arity up to
\* one more than the number of factors, each component an element of its
\* factor or the absent element
SearchItems(seqs) ==
    UNION {{item \in [1..m -> UNION {ElemsOf(seqs[k]) : k \in 1..Len(seqs)}
                                \cup {Absent}] :
               \A k \in 1..m :
                  (item[k] = Absent) \/ (k <= Len(seqs) /\ item[k] \in ElemsOf(seqs[k]))} :
           m \in 0..(Len(seqs) + 1)}

\* the descriptors of step 0 asked of a view of length n: with a start, with
\* a stop, with neither
ZeroDescs(n) ==
    {Slice(a, None, Some(0)) : a \in OptInts(n)}
        \cup {Slice(None, b, Some(0)) : b \in OptInts(n)}

NoRes == [op |-> "none"]

(***************************************************************************)
(* The state machine: a client builds a chain of views from a base         *)
(* sequence and queries the last one.                                      *)
(***************************************************************************)
Cur == chain[Len(chain)]

Quiet == res.op = "none" /\ it.st = "idle" /\ it2.st = "idle"

\* the call rewrites its receiver instead of returning a new object
Extend_InPlace(obj, op, arg) ==
    /\ chain' = [chain EXCEPT ![Len(chain)] = obj]
    /\ ops' = Append(ops, [op |-> op, arg |-> arg])
    /\ nextId' = nextId + 1
    /\ UNCHANGED <<res, it, it2>>

\* the call returns a new object: the objects at hand stay as they are
Extend(obj, op, arg) ==
    /\ chain' = Append(chain, obj)
    /\ ops' = Append(ops, [op |-> op, arg |-> arg])
    /\ nextId' = nextId + 1
    /\ UNCHANGED <<res, it, it2>>

\* SeqSlice(base, d): the constructor applied to a built-in sequence
Construct(d) ==
    /\ Quiet
    /\ Len(chain) = 1
    /\ Cur.cls = "list"
    /\ Extend(MkSeqSlice("SeqSlice", nextId, Cur, d), "construct", d)

\* Cur[d] for a Range View, a Product View or a generic Reversal View, d
\* having a non-zero step
GetSlice(d) ==
    /\ Quiet
    /\ \/ /\ IsSlice(Cur)
          /\ Extend(SeqSlice_getitem_slice(Cur, d, nextId), "getslice", d)
       \/ /\ Cur.cls = "Product"
          /\ Extend(Product_getitem_slice(Cur, d, nextId), "getslice", d)
       \/ /\ Cur.cls = "Reversed"
          /\ Extend(MkList(nextId, Reversed_getitem_slice(Cur, d).val), "getslice", d)

\* Cur[d] for a descriptor d of step 0, on a Range View, a Product View or a
\* generic Reversal View: what the call returns or raises
GetSliceZeroStep(d) ==
    /\ Quiet
    /\ d.step = Some(0)
    /\ IsSlice(Cur) \/ Cur.cls \in {"Product", "Reversed"}
    /\ res' = [op |-> "getslice", i |-> d,
               r |-> IF IsSlice(Cur)
                     THEN Ok(SeqSlice_getitem_slice(Cur, d, nextId))
                     ELSE IF Cur.cls = "Product"
                     THEN Ok(Product_getitem_slice(Cur, d, nextId))
                     ELSE Reversed_getitem_slice(Cur, d)]
    /\ UNCHANGED <<chain, ops, it, it2, nextId>>

\* Reversed(Cur)
Reverse ==
    /\ Quiet
    /\ Extend(Reversed_new(Cur, nextId), "reverse", Slice(None, None, None))

\* Cur[i]
GetItem(i) ==
    /\ Quiet
    /\ res' = [op |-> "getitem", i |-> i, r |-> PyGetItem(Cur, i)]
    /\ UNCHANGED <<chain, ops, it, it2, nextId>>

\* Cur.len()
GetLen ==
    /\ Quiet
    /\ res' = [op |-> "len", i |-> 0, r |-> Ok(PyLen(Cur))]
    /\ UNCHANGED <<chain, ops, it, it2, nextId>>

\* iter(Cur) and the first next() on it, for a sub-range of a Product
IterStart ==
    /\ Quiet
    /\ Cur.cls = "_ProductSlice"
    /\ it' = ProductSlice_iter_first(Cur)
    /\ UNCHANGED <<chain, ops, res, it2, nextId>>

\* a further next() on the running generator
IterNext ==
    /\ it.st = "yield"
    /\ it' = ProductSlice_iter_next(Cur, it)
    /\ UNCHANGED <<chain, ops, res, it2, nextId>>

\* a second iter(Cur) that takes up the traversal where the first one is
IterStart2_Resume ==
    /\ res.op = "none"
    /\ it.st # "idle"
    /\ it2.st = "idle"
    /\ Cur.cls = "_ProductSlice"
    /\ it2' = IF it.st = "yield"
              THEN ProductSlice_iter_next(Cur, [it EXCEPT !.out = <<>>])
              ELSE [it EXCEPT !.out = <<>>]
    /\ UNCHANGED <<chain, ops, res, it, nextId>>

\* a second iter(Cur) on the same sub-range of a Product, and the first
\* next() on it, once the first generator has been started
IterStart2 ==
    /\ res.op = "none"
    /\ it.st # "idle"
    /\ it2.st = "idle"
    /\ Cur.cls = "_ProductSlice"
    /\ it2' = ProductSlice_iter_first(Cur)
    /\ UNCHANGED <<chain, ops, res, it, nextId>>

\* a further next() on the second generator
IterNext2 ==
    /\ it2.st = "yield"
    /\ it2' = ProductSlice_iter_next(Cur, it2)
    /\ UNCHANGED <<chain, ops, res, it, nextId>>

\* item in Cur, for a Product
Contains(item) ==
    /\ Quiet
    /\ Cur.cls = "Product"
    /\ res' = [op |-> "contains", i |-> item, r |-> Product_contains(Cur, item)]
    /\ UNCHANGED <<chain, ops, it, it2, nextId>>

\* Cur.count(item), for a Product
Count(item) ==
    /\ Quiet
    /\ Cur.cls = "Product"
    /\ res' = [op |-> "count", i |-> item, r |-> Product_count(Cur, item)]
    /\ UNCHANGED <<chain, ops, it, it2, nextId>>

\* Cur.index(item), for a Product
Index(item) ==
    /\ Quiet
    /\ Cur.cls = "Product"
    /\ res' = [op |-> "index", i |-> item, r |-> Product_index(Cur, item)]
    /\ UNCHANGED <<chain, ops, it, it2, nextId>>

\* Cur.index(item, start, stop), for a generic Reversal View
RevIndex(item, start, stop) ==
    /\ Quiet
    /\ Cur.cls = "Reversed"
    /\ res' = [op |-> "index", i |-> <<item, start, stop>>,
               r |-> Reversed_index(Cur, item, start, stop)]
    /\ UNCHANGED <<chain, ops, it, it2, nextId>>

OnlyReversed == \A k \in 1..Len(ops) : ops[k].op \in {"construct", "reverse"}

InitCommon ==
    /\ ops = <<>>
    /\ res = NoRes
    /\ it = IdleIter
    /\ it2 = IdleIter
    /\ nextId = 2

\* Range Views and generic Reversal Views over a built-in list
InitRange ==
    /\ \E n \in 0..MaxLen : chain = <<MkList(1, ListOf(n))>>
    /\ InitCommon

\* the chain at hand starts from a built-in list
OnList == chain[1].cls = "list"

NextRange ==
    \/ OnList /\ Len(chain) = 1 /\ Quiet /\ \E d \in Descs(PyLen(Cur)) : Construct(d)
    \/ OnList /\ Len(chain) = 2 /\ IsSlice(Cur)
              /\ Quiet /\ \E d \in SubDescs(PyLen(Cur)) : GetSlice(d)
    \/ OnList /\ Len(chain) = 2 /\ Cur.cls = "Reversed"
              /\ Quiet /\ \E d \in Descs(PyLen(Cur)) : GetSlice(d)
    \/ OnList /\ Len(chain) < 4 /\ OnlyReversed /\ Reverse
    \/ OnList /\ Len(chain) <= 2 /\ Quiet /\ \E i \in Indexes(PyLen(Cur)) : GetItem(i)
    \/ OnList /\ Len(chain) <= 2 /\ GetLen
    \/ OnList /\ Len(chain) = 2
              /\ Quiet /\ \E d \in ZeroDescs(PyLen(Cur)) : GetSliceZeroStep(d)

SpecRange == InitRange /\ [][NextRange]_vars

\* Product Views and their sub-ranges
InitProduct ==
    /\ \E seqs \in FactorLists, repeat \in 0..MaxRepeat :
          /\ Len(seqs) * repeat <= MaxFactors
          /\ MulLens(Product_init(seqs, repeat), 1) <= MaxProdLen
          /\ chain = <<MkProduct(1, Product_init(seqs, repeat))>>
    /\ InitCommon

\* the chain at hand starts from a Product
OnProduct == chain[1].cls = "Product"

NextProduct ==
    \/ OnProduct /\ Len(chain) = 1 /\ Quiet /\ \E d \in Descs(PyLen(Cur)) : GetSlice(d)
    \/ OnProduct /\ Len(chain) = 2 /\ IsSlice(Cur)
                 /\ Quiet /\ \E d \in FuseDescs(PyLen(Cur)) : GetSlice(d)
    \/ OnProduct /\ Len(chain) < 3 /\ OnlyReversed /\ Reverse
    \/ OnProduct /\ Len(chain) <= 2 /\ Quiet /\ \E i \in Indexes(PyLen(Cur)) : GetItem(i)
    \/ OnProduct /\ Len(chain) <= 2 /\ GetLen
    \/ OnProduct /\ Len(chain) <= 2 /\ OnlyReversed
                 /\ Quiet /\ \E d \in ZeroDescs(PyLen(Cur)) : GetSliceZeroStep(d)
    \/ OnProduct /\ Len(chain) = 2 /\ IterStart
    \/ OnProduct /\ IterNext
    \/ OnProduct /\ Len(chain) = 2 /\ IterStart2
    \/ OnProduct /\ IterNext2

SpecProduct == InitProduct /\ [][NextProduct]_vars

\* one traversal of a sub-range of a Product, run by a for loop, list() or
\* tuple(): a generator that has yielded is asked for its next element until
\* it is exhausted
NextIter ==
    \/ OnProduct /\ Len(chain) = 1 /\ Quiet /\ \E d \in Descs(PyLen(Cur)) : GetSlice(d)
    \/ OnProduct /\ Len(chain) = 2 /\ IterStart
    \/ OnProduct /\ IterNext

SpecIter == InitProduct /\ [][NextIter]_vars /\ WF_vars(IterNext)

\* the classes of the built-in sequences
BuiltinClasses == {"list", "tuple", "str", "range"}

\* the built-in bases a generic Reversal View is made over
InitBuiltin ==
    /\ \/ \E c \in {"tuple", "str"}, xs \in SearchSeqs(MaxLen) :
             chain = <<MkSeq(c, 1, xs)>>
       \/ \E n \in 0..MaxLen : chain = <<MkSeq("range", 1, ListOf(n))>>
    /\ InitCommon

\* search in Products and in generic Reversal Views
InitSearch ==
    \/ /\ \E seqs \in SearchFactorLists :
             /\ MulLens(seqs, 1) <= MaxProdLen
             /\ chain = <<MkProduct(1, seqs)>>
       /\ InitCommon
    \/ InitBuiltin

NextSearch ==
    \/ Len(chain) = 1 /\ Cur.cls = "Product"
          /\ Quiet /\ \E item \in SearchItems(Cur.sequences) : Contains(item)
    \/ Len(chain) = 1 /\ Cur.cls = "Product"
          /\ Quiet /\ \E item \in SearchItems(Cur.sequences) : Count(item)
    \/ Len(chain) = 1 /\ Cur.cls = "Product"
          /\ Quiet /\ \E item \in SearchItems(Cur.sequences) : Index(item)
    \/ Len(chain) = 1 /\ Cur.cls \in BuiltinClasses /\ Reverse
    \/ Len(chain) = 2 /\ Cur.cls = "Reversed"
          /\ Quiet /\ \E item \in ElemsOf(Cur.seq.items) \cup {Absent},
                start \in Indexes(PyLen(Cur)), stop \in OptInts(PyLen(Cur)) :
                RevIndex(item, start, stop)

SpecSearch == InitSearch /\ [][NextSearch]_vars

\* every family of views: over a list, over a Product, over a tuple or str
InitAll == InitRange \/ InitProduct \/ InitBuiltin

NextAll == NextRange \/ NextProduct \/ NextSearch

Spec == InitAll /\ [][NextAll]_vars

(***************************************************************************)
(* Reference semantics of the built-in sequences, against which the views  *)
(* are compared.                                                           *)
(***************************************************************************)
RECURSIVE RefProduct(_)
\* the tuples of the Cartesian product in lexicographic order, the first
\* factor varying slowest (itertools.product)
RefProduct(seqs) ==
    IF seqs = <<>> THEN << <<>> >>
    ELSE LET rest == RefProduct(Tail(seqs))
             f    == Head(seqs)
             n    == Len(rest)
         IN  [k \in 1..(Len(f) * n) |->
                 <<f[((k - 1) \div n) + 1]>> \o rest[((k - 1) % n) + 1]]

\* o[0], ..., o[len-1] all succeed and are the elements of xs
SameElements(o, xs) ==
    /\ PyLen(o) = Len(xs)
    /\ \A k \in 1..Len(xs) :
          LET r == PyGetItem(o, k - 1) IN r.exc = "none" /\ r.val = xs[k]

OpsAre(names) ==
    /\ Len(ops) = Len(names)
    /\ \A k \in 1..Len(names) : ops[k].op = names[k]

(***************************************************************************)
(* Claims about Range Views (SpecRange).                                   *)
(***************************************************************************)
\* the conventional slice B[d1] of the base list, for a constructed view
OuterRef == RefSlice(chain[1].items, ops[1].arg)

\* C1 (as claimed): range fusion equivalence.  For every base list B and
\* descriptors d1, d2 with non-zero steps, SeqSlice(B, d1)[d2] has the
\* length and the elements of the two-step slice B[d1][d2].
C1_FusionEquivalence ==
    (chain[1].cls = "list" /\ OpsAre(<<"construct", "getslice">>))
        => SameElements(chain[3], RefSlice(OuterRef, ops[2].arg))

\* C2: Range View length law.  For every base length and descriptor with a
\* non-zero step, SeqSlice.len() is the number of base positions the
\* descriptor selects; it is never negative, and it is 0 when the resolved
\* interval is empty or runs against the sign of the step.
C2_LengthLaw ==
    (OpsAre(<<"construct">>) /\ res.op = "len")
        => LET d == ops[1].arg
               L == Len(chain[1].items)
               b == Indices(d, L)
           IN  /\ res.r.exc = "none"
               /\ res.r.val = Len(RefPositions(d, L))
               /\ res.r.val = Len(OuterRef)
               /\ res.r.val >= 0
               /\ ((b[3] > 0 /\ b[1] >= b[2]) \/ (b[3] < 0 /\ b[1] <= b[2]))
                     => res.r.val = 0

\* C2 witness: len() of a strided backward view that selects two positions
C2_Witness ==
    /\ OpsAre(<<"construct">>)
    /\ res.op = "len"
    /\ res.r.val = 2
    /\ ops[1].arg.step = Some(-2)

\* C3: Range View element access.  For every base list B, descriptor d with
\* a non-zero step and index i with -len <= i < len, SeqSlice(B, d)[i] is
\* the element B[d][i] of the conventional slice.
C3_ElementAccess ==
    (OpsAre(<<"construct">>) /\ res.op = "getitem"
        /\ -Len(OuterRef) <= res.i /\ res.i < Len(OuterRef))
        => /\ res.r.exc = "none"
           /\ res.r.val = PyItem(OuterRef, res.i)

\* C3 witness: a negative index into a strided view whose stop is not a
\* whole number of steps away from its start
C3_Witness ==
    /\ OpsAre(<<"construct">>)
    /\ res.op = "getitem"
    /\ res.i < 0
    /\ res.r.exc = "none"
    /\ Abs(StepOf(ops[1].arg)) = 2
    /\ LET b == Indices(ops[1].arg, Len(chain[1].items))
       IN  (b[2] - b[1]) % 2 = 1

\* C8: cancellation law of the generic Reversal View.  For a built-in base
\* sequence s, Reversed(s) is a fresh wrapper holding s, and
\* Reversed(Reversed(s)) is the very object s: not a wrapper, not a copy.
C8_Cancellation ==
    (chain[1].cls = "list" /\ OpsAre(<<"reverse", "reverse">>))
        => /\ chain[2].cls = "Reversed"
           /\ chain[2].oid # chain[1].oid
           /\ chain[2].seq = chain[1]
           /\ chain[3].cls = "list"
           /\ chain[3].oid = chain[1].oid
           /\ chain[3] = chain[1]

\* C8 witness: a non-empty list reversed twice
C8_Witness ==
    /\ chain[1].cls = "list"
    /\ Len(chain[1].items) = 2
    /\ OpsAre(<<"reverse", "reverse">>)

\* o and p have the same length and the same element at every index
SameView(o, p) ==
    /\ PyLen(o) = PyLen(p)
    /\ \A i \in 0..(PyLen(p) - 1) :
          LET r == PyGetItem(o, i)
              s == PyGetItem(p, i)
          IN  r.exc = "none" /\ s.exc = "none" /\ r.val = s.val

\* C10 (as claimed): reversal of a Range View.  For every SeqSlice(B, d)
\* with a non-zero step, Reversed(v) is a Range View of the same length
\* whose element at index i is v[len-1-i].
C10_RangeReversal ==
    (chain[1].cls = "list" /\ OpsAre(<<"construct", "reverse">>))
        => LET v == chain[2]
               r == chain[3]
               n == PyLen(v)
           IN  /\ r.cls = "SeqSlice"
               /\ PyLen(r) = n
               /\ \A i \in 0..(n - 1) :
                     LET a == PyGetItem(r, i)
                         b == PyGetItem(v, n - 1 - i)
                     IN  a.exc = "none" /\ b.exc = "none" /\ a.val = b.val

(***************************************************************************)
(* Claims about Product Views (SpecProduct) and about every view kind      *)
(* (Spec).                                                                 *)
(***************************************************************************)
NonEmptyFactors(seqs) == \A k \in 1..Len(seqs) : Len(seqs[k]) > 0

IsView(o) == o.cls \in {"SeqSlice", "_ProductSlice", "Product"}

\* C4: out-of-range indexed access.  For a Range View, a Product View and a
\* sub-range of a Product View, at any fusion depth, a single-index access
\* with i < -length or i >= length raises IndexError and returns no element:
\* so it is for the access made, and for every out-of-range index that could
\* be asked of the view at hand, fused or not.
C4_OutOfRange ==
    IsView(Cur) =>
       LET L == PyLen(Cur)
       IN  /\ (res.op = "getitem" /\ (res.i < -L \/ res.i >= L))
                => res.r.exc = "IndexError"
           /\ \A i \in OutIndexes(L) : PyGetItem(Cur, i).exc = "IndexError"

\* C4 witness: an index one past the end of a non-empty sub-range of a Product
C4_Witness ==
    /\ res.op = "getitem"
    /\ Cur.cls = "_ProductSlice"
    /\ PyLen(Cur) > 0
    /\ res.i = PyLen(Cur)
    /\ res.r.exc = "IndexError"

\* the tuples of per-factor positions of a product
IndexTuples(seqs) ==
    {t \in [1..Len(seqs) -> 1..MaxFactorLen] :
        \A k \in 1..Len(seqs) : t[k] <= Len(seqs[k])}

\* C5: Product length law.  For every list of factors (repeat= powers
\* included) Product.len() is the number of tuples of the Cartesian product,
\* the arithmetic product of the factor lengths: 1 for the zero-factor
\* product and 0 whenever some factor is empty.
C5_ProductLen ==
    (chain[1].cls = "Product" /\ Len(chain) = 1 /\ res.op = "len")
        => LET seqs == chain[1].sequences
           IN  /\ res.r.exc = "none"
               /\ res.r.val = Cardinality(IndexTuples(seqs))
               /\ res.r.val = Len(RefProduct(seqs))
               /\ seqs = <<>> => res.r.val = 1
               /\ ~NonEmptyFactors(seqs) => res.r.val = 0

\* C5 witness: len() of a product of two factors of two elements
C5_Witness ==
    /\ chain[1].cls = "Product"
    /\ Len(chain) = 1
    /\ res.op = "len"
    /\ Len(chain[1].sequences) = 2
    /\ res.r.val = 4

\* C6: Product element access.  For every Product of non-empty factors and
\* every i with -L <= i < L, Product[i] is the (i mod L)-th tuple of the
\* Cartesian product in lexicographic order, the first factor varying
\* slowest; index 0 of the zero-factor product is the empty tuple.
C6_ProductElem ==
    (chain[1].cls = "Product" /\ Len(chain) = 1 /\ res.op = "getitem"
        /\ NonEmptyFactors(chain[1].sequences)
        /\ -PyLen(chain[1]) <= res.i /\ res.i < PyLen(chain[1]))
        => LET ref == RefProduct(chain[1].sequences)
           IN  /\ res.r.exc = "none"
               /\ res.r.val = ref[(res.i % Len(ref)) + 1]
               /\ chain[1].sequences = <<>> => res.r.val = <<>>

\* C6 witness: a negative index into a product of two factors whose tuple
\* takes the second element of the first factor and the first of the last
C6_Witness ==
    /\ chain[1].cls = "Product"
    /\ Len(chain) = 1
    /\ res.op = "getitem"
    /\ chain[1].sequences = <<FactorOf(1, 2), FactorOf(2, 2)>>
    /\ res.i = -2
    /\ res.r.exc = "none"
    /\ res.r.val = <<12, 21>>

\* C7 (as claimed): index/iteration agreement for a sub-range of a Product.
\* For every Product P of (one or more) non-empty factors and descriptor d
\* with a non-zero step, iterating P[d] ends normally having yielded exactly
\* P[d][0], ..., P[d][len-1].
C7_IterAgreement ==
    (chain[1].cls = "Product" /\ OpsAre(<<"getslice">>)
        /\ Len(chain[1].sequences) >= 1
        /\ NonEmptyFactors(chain[1].sequences)
        /\ it.st \in {"done", "raised"})
        => /\ it.st = "done"
           /\ SameElements(Cur, it.out)

\* C9 (as claimed): reversal cancellation for every view kind.  For every
\* Range View v and every Product View v, reverse(reverse(v)) has the
\* length of v and the element of v at every index.
C9_ReversalCancellation ==
    /\ (chain[1].cls = "list" /\ OpsAre(<<"construct", "reverse", "reverse">>))
          => SameView(chain[4], chain[2])
    /\ (chain[1].cls = "Product" /\ OpsAre(<<"reverse", "reverse">>))
          => SameView(chain[3], chain[1])

(***************************************************************************)
(* Claims about reversal views, search and zero steps.                     *)
(***************************************************************************)
\* the list xs read backwards
RefReversed(xs) == RefSlice(xs, Slice(None, None, Some(-1)))

\* the outcome of xs[i] on a built-in list
RefGet(xs, i) ==
    IF -Len(xs) <= i /\ i < Len(xs) THEN Ok(PyItem(xs, i)) ELSE Raise("IndexError")

\* C11 (as claimed): reversal of a Product View.  For every Product P, the
\* zero-factor one included, Reversed(P) has the length of P, its element at
\* every index of [-L, L) is that of the reversed list of P's tuples, the
\* indexes outside raise IndexError, and iterating it ends normally having
\* yielded those tuples in that order.
C11_ProductReversal ==
    (OnProduct /\ OpsAre(<<"reverse">>))
        => LET ref == RefReversed(RefProduct(chain[1].sequences))
               L   == Len(ref)
           IN  /\ PyLen(Cur) = L
               /\ \A i \in Indexes(L) : PyGetItem(Cur, i) = RefGet(ref, i)
               /\ it.st \in {"done", "raised"}
                     => (it.st = "done" /\ it.out = ref)

\* C12: access to a generic Reversal View.  For every built-in base s of
\* length L, Reversed(s) has length L, Reversed(s)[i] is s[-1-i], the
\* element at position i of s read backwards, for every i in [-L, L), and
\* raises IndexError for every other i.
C12_ReversedAccess ==
    (OnList /\ OpsAre(<<"reverse">>))
        => LET s == chain[1].items
               L == Len(s)
           IN  /\ Cur.cls = "Reversed"
               /\ res.op = "len" => res.r = Ok(L)
               /\ (res.op = "getitem" /\ -L <= res.i /\ res.i < L)
                     => /\ res.r = Ok(PyItem(s, -1 - res.i))
                        /\ res.r = RefGet(RefReversed(s), res.i)
               /\ (res.op = "getitem" /\ (res.i < -L \/ res.i >= L))
                     => res.r = Raise("IndexError")

\* C12 witness: the last but one element of a reversed list of three, asked
\* for by a negative index
C12_Witness ==
    /\ OnList
    /\ OpsAre(<<"reverse">>)
    /\ chain[1].items = ListOf(3)
    /\ res.op = "getitem"
    /\ res.i = -2
    /\ res.r = Ok(20)

\* the descriptor (-1-start, -1-stop, -step) of the base for descriptor d
\* of the reversed sequence
RefRevDesc(d) ==
    Slice(IF IsNone(d.start) THEN None ELSE Some(-1 - Val(d.start)),
          IF IsNone(d.stop) THEN None ELSE Some(-1 - Val(d.stop)),
          Some(-StepOf(d)))

\* C13: sub-range of a generic Reversal View.  For every built-in base s and
\* every descriptor d with a non-zero step, Reversed(s)[d] has exactly the
\* elements of s[::-1][d]: the descriptor (-1-start, -1-stop, -step) applied
\* to s selects the same elements in the same order.
C13_ReversedSubrange ==
    (OnList /\ OpsAre(<<"reverse", "getslice">>))
        => LET s == chain[1].items
               d == ops[2].arg
           IN  /\ Cur.cls = "list"
               /\ Cur.items = RefSlice(RefReversed(s), d)
               /\ RefSlice(s, RefRevDesc(d)) = RefSlice(RefReversed(s), d)

\* C13 witness: the backward sub-range [-1:0:-1] of a reversed list of three
C13_Witness ==
    /\ OnList
    /\ OpsAre(<<"reverse", "getslice">>)
    /\ chain[1].items = ListOf(3)
    /\ ops[2].arg = Slice(Some(-1), Some(0), Some(-1))
    /\ Cur.items = <<10, 20>>

\* the number of occurrences of x in the list xs
RefOccurrences(xs, x) == Cardinality({k \in 1..Len(xs) : xs[k] = x})

RECURSIVE RefWays(_, _)
\* the product over the factors of the occurrences of the item's components
RefWays(item, seqs) ==
    IF seqs = <<>> THEN 1
    ELSE RefOccurrences(Head(seqs), Head(item)) * RefWays(Tail(item), Tail(seqs))

\* a search has been made in the Product at hand for an item of as many
\* components as there are factors
SearchedSameArity ==
    /\ Cur.cls = "Product"
    /\ res.op \in {"contains", "count", "index"}
    /\ Len(res.i) = Len(Cur.sequences)

\* C14: Product search consistency.  For every Product P and every tuple of
\* as many components as P has factors, P.count(item) is the product over
\* the factors of the occurrences of the corresponding component, item in P
\* holds iff every component occurs in its factor, and both agree with a
\* linear scan of the tuples of P: count > 0 iff contained.
C14_SearchConsistency ==
    (SearchedSameArity /\ res.op \in {"contains", "count"})
        => LET seqs == Cur.sequences
               item == res.i
               n    == RefOccurrences(RefProduct(seqs), item)
           IN  /\ res.op = "count"
                     => (res.r = Ok(n) /\ n = RefWays(item, seqs))
               /\ res.op = "contains"
                     => /\ res.r = Ok(n > 0)
                        /\ res.r.val <=> \A k \in 1..Len(seqs) :
                                            item[k] \in ElemsOf(seqs[k])
               /\ Product_count(Cur, item).val > 0
                     <=> Product_contains(Cur, item).val

\* C14 witness: a tuple counted four times, twice in each of two factors
C14_Witness ==
    /\ SearchedSameArity
    /\ res.op = "count"
    /\ Len(Cur.sequences) = 2
    /\ res.r = Ok(4)

\* a search has been made in the Product at hand for an item with fewer or
\* more components than there are factors
SearchedOtherArity ==
    /\ Cur.cls = "Product"
    /\ res.op \in {"contains", "count", "index"}
    /\ Len(res.i) # Len(Cur.sequences)

\* C15 (as claimed): arity mismatch is not-found.  When the item has fewer
\* or more components than the Product has factors, membership is False,
\* count is 0 and index raises ValueError: none returns a position.
C15_ArityMismatch ==
    SearchedOtherArity
        => /\ res.op = "contains" => res.r = Ok(FALSE)
           /\ res.op = "count" => res.r = Ok(0)
           /\ res.op = "index" => res.r = Raise("ValueError")

\* C16: Product first-position search.  For every Product P and every tuple
\* of matching arity whose components occur in their factors, P.index(item)
\* is the least i with P[i] = item; if a component is absent from its factor
\* it raises ValueError; for the zero-factor product index(()) is 0 and
\* every other item is not found.
C16_FirstPosition ==
    (Cur.cls = "Product" /\ res.op = "index")
        => LET seqs == Cur.sequences
               item == res.i
               ref  == RefProduct(seqs)
               at   == {k \in 1..Len(ref) : ref[k] = item}
           IN  /\ (Len(item) = Len(seqs) /\ at # {})
                     => /\ res.r.exc = "none"
                        /\ res.r.val + 1 \in at
                        /\ \A k \in at : res.r.val + 1 <= k
                        /\ PyGetItem(Cur, res.r.val) = Ok(item)
               /\ (Len(item) = Len(seqs) /\ at = {})
                     => res.r = Raise("ValueError")
               /\ seqs = <<>>
                     => res.r = (IF item = <<>> THEN Ok(0) ELSE Raise("ValueError"))

\* C16 witness: a tuple found at position 2 of a product of two factors,
\* its last component occurring twice in the last factor
C16_Witness ==
    /\ SearchedSameArity
    /\ res.op = "index"
    /\ Len(Cur.sequences) = 2
    /\ res.r = Ok(2)
    /\ RefOccurrences(Cur.sequences[2], res.i[2]) = 2

\* C17 (as claimed): zero step is rejected.  A sub-range request whose
\* descriptor has step 0 raises ValueError at the sub-range call itself, for
\* a Reversal View, a Range View and a Product View alike: no view is
\* returned to the caller.
C17_ZeroStep ==
    res.op = "getslice" => res.r = Raise("ValueError")

\* the positions of item in the reversal of the list xs that lie inside
\* the sub-range [start:stop] of it
RefFound(xs, item, start, stop) ==
    LET view   == RefReversed(xs)
        within == RefPositions(Slice(Some(start), stop, None), Len(xs))
    IN  {i \in ElemsOf(within) : view[i + 1] = item}

\* C18 (as claimed): first-position search on a generic Reversal View.  For
\* every base sequence, with or without rindex, every item and every start
\* and stop, Reversed(s).index(item, start, stop) returns the least i >= 0
\* with Reversed(s)[i] = item inside the sub-range [start:stop] of the view,
\* and raises ValueError when there is none.
C18_ReversedIndex ==
    (Cur.cls = "Reversed" /\ res.op = "index")
        => LET found == RefFound(Cur.seq.items, res.i[1], res.i[2], res.i[3])
           IN  IF found = {} THEN res.r = Raise("ValueError")
               ELSE res.r = Ok(Some(CHOOSE i \in found : \A j \in found : i <= j))

RECURSIVE RunIter(_, _)
\* a generator over the view run alone from state g to its end
RunIter(self, g) ==
    IF g.st = "yield" THEN RunIter(self, ProductSlice_iter_next(self, g)) ELSE g

\* list a begins list b
IsPrefix(a, b) == Len(a) <= Len(b) /\ SubSeq(b, 1, Len(a)) = a

\* generator g is on the way of, or at the end of, the run alone
OnTheWay(g, alone) ==
    /\ IsPrefix(g.out, alone.out)
    /\ g.st \in {"done", "raised"} => g = alone

\* C19: restartable iteration.  Every iter() of a sub-range of a Product
\* starts a fresh traversal at the first element; two traversals of the same
\* view, one after the other or interleaved step by step in any order, each
\* yield what a traversal run alone yields, and end as it ends: advancing
\* one never changes what the other yields.
C19_Restartable ==
    (Cur.cls = "_ProductSlice" /\ it2.st # "idle")
        => LET alone == RunIter(Cur, ProductSlice_iter_first(Cur))
           IN  /\ OnTheWay(it, alone)
               /\ OnTheWay(it2, alone)
               /\ PyLen(Cur) > 0
                     => (Len(it2.out) >= 1 /\ Ok(it2.out[1]) = PyGetItem(Cur, 0))

\* C19 witness: two traversals of the same sub-range under way at once,
\* the first having yielded three tuples and the second two
C19_Witness ==
    /\ Cur.cls = "_ProductSlice"
    /\ it.st = "yield"
    /\ it2.st = "yield"
    /\ Len(it.out) = 3
    /\ Len(it2.out) = 2
    /\ it.out[1] # it.out[2]

\* object o is a view over a base it holds a reference to
HoldsBase(o) == o.cls \in {"SeqSlice", "_ProductSlice", "Reversed"}

\* every view of objs wraps an object of objs built before it
BasesKept(objs) ==
    \A k \in 1..Len(objs) :
        HoldsBase(objs[k]) => \E j \in 1..(k - 1) : objs[k].seq = objs[j]

\* C20: views are immutable and read-only.  No length, get, sub-range,
\* reverse, search or iteration step changes an existing object: every view
\* keeps its stored base and descriptor, every base sequence and factor
\* keeps its contents and length, and a view made by the step wraps one of
\* those unchanged bases.
C20_Immutable ==
    [][/\ Len(chain') >= Len(chain)
       /\ \A k \in 1..Len(chain) : chain'[k] = chain[k]
       /\ BasesKept(chain')]_vars

\* C20 witness: a sub-range of a Product, after two traversals of it have
\* run to their end
C20_Witness ==
    /\ Len(chain) = 2
    /\ chain[1].cls = "Product"
    /\ ops[1].op = "getslice"
    /\ Cur.cls = "_ProductSlice"
    /\ it.st = "done"
    /\ it2.st = "done"
    /\ Len(it.out) >= 2

(***************************************************************************)
(* Claims about the shape of the views, the bounds and the odometer.       *)
(***************************************************************************)
\* C21 (as claimed): fusion never stacks and never changes kind.  For every
\* Range View v over base B and every descriptor d of non-zero step, v[d]
\* is again a Range View of the class of v whose base is B itself, not v.
C21_FusionKeepsKind ==
    \A k \in 1..Len(ops) :
        (ops[k].op = "getslice" /\ IsSlice(chain[k]))
            => /\ chain[k + 1].cls = chain[k].cls
               /\ chain[k + 1].seq = chain[k].seq
               /\ ~IsSlice(chain[k + 1].seq)

\* C22 (as claimed): definite emptiness.  When the descriptor of a
\* sub-range of a Range View starts beyond the reachable end in the
\* direction of travel, or stops before the beginning, the result is an
\* empty sequence: of length 0, whatever the kind of the base.
C22_DefiniteEmptiness ==
    \A k \in 1..Len(ops) :
        (ops[k].op = "getslice" /\ IsSlice(chain[k])
            /\ SeqSlice_compose_slice(chain[k], ops[k].arg).exc = "EmptySubsliceException")
            => PyLen(chain[k + 1]) = 0

\* C23: no double wrapping.  Reversed(x) allocates a generic Reversal View
\* only when x is neither a built-in range nor reversal-capable, and in
\* every state reached by reverse and sub-range operations the base held
\* by a generic Reversal View is a built-in sequence that is not a range:
\* never a Range View, a Product View or another Reversal View.
C23_NoDoubleWrap ==
    /\ \A k \in 1..Len(chain) :
          chain[k].cls = "Reversed"
              => chain[k].seq.cls \in BuiltinClasses \ {"range"}
    /\ \A k \in 1..Len(ops) :
          ops[k].op = "reverse"
              => (chain[k + 1].cls = "Reversed"
                    <=> chain[k].cls \in BuiltinClasses \ {"range"})

\* C23 witness: a generic Reversal View has been reversed again, and the
\* base it wrapped came back
C23_Witness ==
    /\ Len(chain) = 3
    /\ chain[2].cls = "Reversed"
    /\ ops[2].op = "reverse"
    /\ chain[3] = chain[1]
    /\ Len(chain[1].items) >= 2

\* the composed index j of index i of view v is a valid index of the base
\* and has the sign the descriptor of v asks for
SignedAsAsked(v, i, j) ==
    LET sl   == v.slice
        step == StepOf(sl)
        Lb   == SeqSlice_baselen(v)
    IN  /\ -Lb <= j /\ j < Lb
        /\ i >= 0 => (j < 0 <=> \/ (~IsNone(sl.start) /\ Val(sl.start) < 0)
                                \/ (IsNone(sl.start) /\ step < 0))
        /\ i < 0 => (j < 0 <=> \/ (~IsNone(sl.stop) /\ Val(sl.stop) < 0)
                               \/ (IsNone(sl.stop) /\ step > 0))

\* C24: composed index validity and sign.  For every Range View over a base
\* of length Lb and every in-bounds i, the composed base index j satisfies
\* -Lb <= j < Lb; for i >= 0 it is negative exactly when the start of the
\* descriptor is negative, or None with a negative step; for i < 0 exactly
\* when the stop is negative, or None with a positive step.
C24_ComposedIndexSign ==
    IsSlice(Cur)
        => \A i \in (-SeqSlice_len(Cur))..(SeqSlice_len(Cur) - 1) :
              SignedAsAsked(Cur, i, SeqSlice_compose_index(Cur, i))

\* C24 witness: a view of two elements or more with a negative start and a
\* positive stop, of which an element has been read from the back
C24_Witness ==
    /\ IsSlice(Cur)
    /\ ~IsNone(Cur.slice.start) /\ Val(Cur.slice.start) < 0
    /\ ~IsNone(Cur.slice.stop) /\ Val(Cur.slice.stop) > 0
    /\ SeqSlice_len(Cur) >= 2
    /\ res.op = "getitem" /\ res.i < 0 /\ res.r.exc = "none"

InFactors(indices, seqs) ==
    /\ Len(indices) = Len(seqs)
    /\ \A k \in 1..Len(seqs) : 0 <= indices[k] /\ indices[k] < Len(seqs[k])

RECURSIVE LinearPos(_, _, _, _)
\* the position in the product of the index vector, the first factor
\* varying slowest: the digits from k on, after the position i so far
LinearPos(indices, seqs, k, i) ==
    IF k > Len(seqs) THEN i
    ELSE LinearPos(indices, seqs, k + 1, i * Len(seqs[k]) + indices[k])

\* C26: odometer invariant.  At every tuple yielded by the incremental
\* traversal of a sub-range of a Product of non-empty factors, each
\* per-factor index lies in [0, len(factor)), the tuple yielded is the one
\* gathered from the factors at the index vector, and the linear position
\* of the index vector is that of the previous yield plus step.
C26_OdometerInvariant ==
    [][(/\ it'.st = "yield"
        /\ it' # it
        /\ chain[1].sequences # <<>>
        /\ NonEmptyFactors(chain[1].sequences))
          => LET seqs == chain[1].sequences
             IN  /\ InFactors(it'.indices, seqs)
                 /\ it'.item = Product_elem_at(chain[1], it'.indices)
                 /\ it'.out = Append(it.out, it'.item)
                 /\ it.st = "yield"
                       => LinearPos(it'.indices, seqs, 1, 0)
                             = LinearPos(it.indices, seqs, 1, 0) + it.step]_vars

\* C26 witness: the traversal of a product of two factors by steps of two
\* has yielded two tuples, the carry having moved the index of the first
\* factor
C26_Witness ==
    /\ Cur.cls = "_ProductSlice"
    /\ Len(chain[1].sequences) = 2
    /\ it.st = "yield"
    /\ Len(it.out) = 2
    /\ Abs(it.step) >= 2
    /\ it.out[1][1] # it.out[2][1]
    /\ it.indices[1] # 0

\* C27: odometer termination.  For every Product of non-empty factors and
\* every descriptor of non-zero step, stop None or given, the incremental
\* traversal ends: a traversal that has yielded comes to its end without
\* raising, at every yield the index of the first factor is inside the
\* factor, and no more tuples are yielded than the product has.
C27_OdometerTermination ==
    /\ [](NonEmptyFactors(chain[1].sequences)
            => /\ Len(it.out) <= Product_len(chain[1])
               /\ it.st # "raised"
               /\ (it.st = "yield" /\ chain[1].sequences # <<>>)
                     => (0 <= it.indices[1] /\ it.indices[1] < Len(chain[1].sequences[1])))
    /\ (it.st = "yield" /\ NonEmptyFactors(chain[1].sequences)) ~> (it.st = "done")

\* C27 witness: a traversal with no stop, backwards by steps of two, of a
\* product of two factors has ended, having yielded two tuples
C27_Witness ==
    /\ Cur.cls = "_ProductSlice"
    /\ Len(chain[1].sequences) = 2
    /\ IsNone(Cur.slice.stop)
    /\ it.st = "done"
    /\ it.step = -2
    /\ Len(it.out) = 2

\* C28: for a Product P of non-empty factors and a descriptor with stop = None
\* and a non-zero step, whatever the start (absent, negative, in range or
\* past either end), the traversal of P[start::step] yields, in order, the
\* elements P[start::step][0], ..., P[start::step][len - 1], which are the
\* conventional slice of the tuples in lexicographic order: so that [::1]
\* lists all the tuples in lexicographic order and [::-1] in the reverse
\* order.
C28_OpenEndedTraversal ==
    (/\ OnProduct /\ Len(chain) = 2 /\ ops[1].op = "getslice"
     /\ NonEmptyFactors(chain[1].sequences)
     /\ IsNone(Cur.slice.stop) /\ StepOf(Cur.slice) # 0
     /\ it.st # "idle")
        => LET ref == RefSlice(RefProduct(chain[1].sequences), Cur.slice)
           IN  /\ it.st \in {"yield", "done"}
               /\ IsPrefix(it.out, ref)
               /\ it.st = "done" =>
                     /\ it.out = ref
                     /\ Len(it.out) = PyLen(Cur)
                     /\ \A k \in 1..Len(it.out) : PyGetItem(Cur, k - 1) = Ok(it.out[k])
                     /\ Cur.slice = Slice(None, None, None) => it.out = RefProduct(chain[1].sequences)
                     /\ Cur.slice = Slice(None, None, Some(-1))
                           => \A k \in 1..Len(ref) : it.out[k] = RefProduct(chain[1].sequences)[Len(ref) + 1 - k]

\* a backward traversal whose start was clipped from beyond the back has run
\* through more than one tuple
C28_Witness ==
    /\ OnProduct /\ Len(chain) = 2 /\ ops[1].op = "getslice"
    /\ NonEmptyFactors(chain[1].sequences)
    /\ IsNone(Cur.slice.stop)
    /\ ~IsNone(Cur.slice.start) /\ Val(Cur.slice.start) >= Product_len(chain[1])
    /\ it.st = "done" /\ it.step < 0
    /\ Len(it.out) >= 3

\* C29: for a Product one of whose factors is empty (its length is 0), the
\* traversal of any sub-range with a non-zero step, the whole Product
\* forward ([:]) and backward ([::-1]) included, ends without an error and
\* without having yielded any element.
C29_EmptyFactorTraversal ==
    (/\ OnProduct /\ Len(chain) = 2 /\ ops[1].op = "getslice"
     /\ ~NonEmptyFactors(chain[1].sequences)
     /\ StepOf(Cur.slice) # 0
     /\ it.st # "idle")
        => /\ Product_len(chain[1]) = 0
           /\ PyLen(Cur) = 0
           /\ it.st = "done"
           /\ it.out = <<>>

\* C30: for every descriptor d with a non-zero step, Product()[d] behaves as
\* the same sub-range of the one-element sequence [()]: its length is 1 or 0
\* accordingly, the indices 0 and -1 give () exactly when the length is 1
\* (and IndexError otherwise), and its traversal yields () once when the
\* length is 1 and nothing when it is 0.
C30_ZeroFactorSubranges ==
    (/\ OnProduct /\ chain[1].sequences = <<>>
     /\ Len(chain) = 2 /\ ops[1].op = "getslice"
     /\ StepOf(Cur.slice) # 0)
        => LET ref == RefSlice(<< <<>> >>, Cur.slice)
           IN  /\ PyLen(Cur) = Len(ref)
               /\ \A i \in {0, -1} :
                     PyGetItem(Cur, i) = IF Len(ref) = 1 THEN Ok(<<>>) ELSE Raise("IndexError")
               /\ it.st \in {"idle", "yield", "done"}
               /\ IsPrefix(it.out, ref)
               /\ it.st = "done" => it.out = ref

====
